---- MODULE Spec2Model ----
(***************************************************************************)
(* Model of src/db/sqlitedict.py: the SqliteDict facade and the            *)
(* SqliteMultiThread worker that owns the sqlite3 connection.              *)
(*                                                                         *)
(* Caller threads run facade methods as short programs of instructions;    *)
(* every instruction is one access to shared state (self.conn, the request *)
(* queue, self.exception, a result queue).  The worker thread runs the     *)
(* loop of SqliteMultiThread.run.  The engine is modelled as a committed   *)
(* table (the backing file) plus the pending transaction of a connection.  *)
(***************************************************************************)
EXTENDS Integers, Sequences, FiniteSets, TLC

\* ---------------------------------------------------------------- bounds
NumCallers == 2
MaxOps == 3
NumKeys == 1
NumVals == 2
NumWorkers == 2

Callers == 1..NumCallers
Keys == 1..NumKeys
Vals == 1..NumVals
Workers == 1..NumWorkers

\* ------------------------------------------------- requests and responses
NO_MORE == "--no more--"
CLOSE == "--close--"
COMMIT == "--commit--"
ADD_ITEM == "REPLACE INTO"
DEL_ITEM == "DELETE FROM WHERE key"
GET_ITEM == "SELECT value WHERE key"
HAS_ITEM == "SELECT 1 WHERE key"
BAD_STMT == "malformed statement"
CLEAR_ALL == "DELETE FROM"
GET_LEN == "SELECT COUNT(*)"
MAKE_TABLE == "CREATE TABLE IF NOT EXISTS"
GET_KEYS == "SELECT key ORDER BY rowid"
GET_VALUES == "SELECT value ORDER BY rowid"
GET_ITEMS == "SELECT key, value ORDER BY rowid"

\* the statements that change rows (and open an implicit transaction)
Writes == {ADD_ITEM, DEL_ITEM, CLEAR_ALL}
Reads == {GET_ITEM, HAS_ITEM}

\* values stored in self.conn / self.exception / a res argument for None
None == 0

\* a key __serialize_key passes through and sqlite3 cannot bind (a list)
Unbindable == -1

\* what self.exception holds when sqlite3.connect or a PRAGMA failed
ConnectionFailure == -2
ConfigurationFailure == -3

\* ------------------------------------------------------------------ codec
encode(obj) ==
    <<"pickle", obj>>

decode(obj) ==
    obj[2]

\* ------------------------------------------------- the table of the engine
\* a table is the sequence of its rows <<key, value>> in rowid order
HasKey(t, k) ==
    \E i \in 1..Len(t) : t[i][1] = k

Lookup(t, k) ==
    t[CHOOSE i \in 1..Len(t) : t[i][1] = k][2]

Remove(t, k) ==
    SelectSeq(t, LAMBDA r : r[1] # k)

Replace_append(t, k, v) ==
    Append(t, <<k, v>>)

\* REPLACE INTO a table whose key column is the PRIMARY KEY
Replace(t, k, v) ==
    Append(Remove(t, k), <<k, v>>)

\* rows a statement yields on table t
RowsOf(req, k, t) ==
    IF req = GET_ITEM /\ HasKey(t, k) THEN << <<Lookup(t, k)>> >>
    ELSE IF req = HAS_ITEM /\ HasKey(t, k) THEN << <<1>> >>
    ELSE IF req = GET_LEN THEN << <<Len(t)>> >>
    ELSE IF req = GET_KEYS THEN [i \in 1..Len(t) |-> <<t[i][1]>>]
    ELSE IF req = GET_VALUES THEN [i \in 1..Len(t) |-> <<t[i][2]>>]
    ELSE IF req = GET_ITEMS THEN t
    ELSE <<>>

Effect_overwrite(req, k, v, t) ==
    IF req = ADD_ITEM THEN << <<k, v>> >>
    ELSE IF req = DEL_ITEM THEN Remove(t, k)
    ELSE IF req = CLEAR_ALL THEN <<>>
    ELSE t

\* table after a statement
Effect(req, k, v, t) ==
    IF req = ADD_ITEM THEN Replace(t, k, v)
    ELSE IF req = DEL_ITEM THEN Remove(t, k)
    ELSE IF req = CLEAR_ALL THEN <<>>
    ELSE t

NoTxn == <<"no transaction">>

\* the table right after __init__ created it in a fresh file
InitialTable == <<>>

\* ---------------------------------------------------------------- queues
QueueGet_lifo(q) ==
    <<q[Len(q)], SubSeq(q, 1, Len(q) - 1)>>

\* Queue.get on a non-empty queue: the oldest item and the rest
QueueGet(q) ==
    <<Head(q), Tail(q)>>

QueuePut(q, x) ==
    Append(q, x)

Row(r) ==
    [t |-> "row", v |-> r]

NoMoreItem ==
    [t |-> NO_MORE, v |-> <<>>]

NoRec ==
    [t |-> "none", v |-> <<>>]

\* ------------------------------------------------------------------ state
VARIABLES
    conn,        \* SqliteDict.conn: None or the worker it refers to
    autocommit,  \* SqliteDict.autocommit = SqliteMultiThread.autocommit
    flag,        \* SqliteDict.flag, the mode the store was opened with
    file,        \* whether the backing file exists
    svc,         \* the service layer: the running create_book and its mock
    nworkers,    \* SqliteMultiThread objects created so far
    wpc,         \* position of each worker thread in run()
    reqs,        \* SqliteMultiThread.reqs
    exception,   \* SqliteMultiThread.exception: None or the failed request
    cur,         \* the request run() is processing
    rows,        \* rows left in the cursor of run()
    connopen,    \* whether the worker's sqlite3 connection is open
    txn,         \* pending transaction of the worker's connection
    committed,   \* committed table of the backing file
    chan,        \* the result queues, by the id of the request carrying them
    th,          \* the caller threads
    nops,        \* facade calls started so far
    nextid,      \* ids given to requests
    enq,         \* history: requests put on each queue, in order
    applied,     \* history: requests taken off each queue, in order
    pend,        \* history: writes in the pending transaction
    durable,     \* history: writes that reached the committed table
    lost,        \* history: writes dropped by a close of the connection
    raised,      \* history: how often each recorded failure was raised
    recorded,    \* history: failures stored in self.exception, in order
    seen,        \* history: the rows each executed statement produced
    sentinels    \* history: how many NO_MORE each result queue received

vars ==
    <<conn, autocommit, flag, file, svc, nworkers, wpc, reqs, exception, cur, rows, connopen,
      txn, committed, chan, th, nops, nextid, enq, applied, pend, durable,
      lost, raised, recorded, seen, sentinels>>

workerVars ==
    <<wpc, reqs, exception, cur, rows, connopen, txn, committed, applied,
      pend, durable, lost, recorded, seen, sentinels>>

NoCmd ==
    [id |-> 0, req |-> "none", key |-> 0, val |-> <<>>, res |-> None, by |-> 0]

IdleThread ==
    [prog |-> <<>>, status |-> "idle", err |-> "", errid |-> 0, cw |-> 0,
     res |-> None, rec |-> NoRec, e |-> None, name |-> "", key |-> 0,
     val |-> 0, flag |-> FALSE, sent |-> <<>>, result |-> <<>>,
     noconn |-> FALSE]

\* no call of the service layer is in progress
NoMsg ==
    [head |-> "", book |-> <<>>, error |-> ""]

NoService ==
    [pc |-> "idle", fn |-> "", book |-> <<>>, key |-> 0, awaited |-> <<>>,
     got |-> <<>>, e |-> "", log |-> <<>>, msg |-> NoMsg, out |-> "",
     ret |-> <<>>]

\* the store after SqliteDict(filename, flag="c") on a file without rows
Init ==
    /\ conn = 1
    /\ autocommit \in BOOLEAN
    /\ flag = "c"
    /\ file = TRUE
    /\ svc = NoService
    /\ nworkers = 1
    /\ wpc = [w \in Workers |-> IF w = 1 THEN "get" ELSE "new"]
    /\ reqs = [w \in Workers |-> <<>>]
    /\ exception = [w \in Workers |-> None]
    /\ cur = [w \in Workers |-> NoCmd]
    /\ rows = [w \in Workers |-> <<>>]
    /\ connopen = [w \in Workers |-> w = 1]
    /\ txn = [w \in Workers |-> NoTxn]
    /\ committed = InitialTable
    /\ chan = <<>>
    /\ th = [c \in Callers |-> IdleThread]
    /\ nops = 0
    /\ nextid = 1
    /\ enq = [w \in Workers |-> <<>>]
    /\ applied = [w \in Workers |-> <<>>]
    /\ pend = [w \in Workers |-> {}]
    /\ durable = {}
    /\ lost = {}
    /\ raised = <<>>
    /\ recorded = <<>>
    /\ seen = <<>>
    /\ sentinels = <<>>


\* ------------------------------------------------- programs of the callers
\* One instruction is one access of a caller thread to shared state.
I(i) ==
    [i |-> i, req |-> "", key |-> 0, val |-> <<>>, res |-> FALSE, none |-> ""]

ReadConn(none) ==
    [I("conn") EXCEPT !.none = none]

PutReq(req, key, val, res) ==
    [I("put") EXCEPT !.req = req, !.key = key, !.val = val, !.res = res]

execute_checkafter(req, key, val, res) ==
    <<PutReq(req, key, val, res), I("check")>>

\* SqliteMultiThread.execute: check_raise_error, then reqs.put
execute(req, key, val, res) ==
    <<I("check"), PutReq(req, key, val, res)>>

\* SqliteMultiThread.select_one: the first res.get() of select and the
\* check_raise_error that follows it
select_one(req, key) ==
    execute(req, key, <<>>, TRUE) \o <<I("get"), I("check")>>

commit_nowait(blocking) ==
    execute(COMMIT, 0, <<>>, FALSE)

\* SqliteMultiThread.commit
commit(blocking) ==
    IF blocking THEN select_one(COMMIT, 0)
    ELSE execute(COMMIT, 0, <<>>, FALSE)

close_nojoin(force) ==
    IF force THEN <<PutReq(CLOSE, 0, <<>>, TRUE)>>
    ELSE select_one(CLOSE, 0)

\* SqliteMultiThread.close
close(force) ==
    IF force THEN <<PutReq(CLOSE, 0, <<>>, TRUE)>>
    ELSE select_one(CLOSE, 0) \o <<I("join")>>

\* if self.conn is not None: body  (a None skips the body)
IfConn(body) ==
    <<[ReadConn("return") EXCEPT !.key = Len(body)]>> \o body

\* SqliteDict.commit: if self.conn is not None: self.conn.commit(blocking)
SqliteDict_commit(blocking) ==
    IfConn(<<ReadConn("raise")>> \o commit(blocking))

\* if self.flag == "r": raise RuntimeError(...)
Denied ==
    <<I("deny")>>

setitem_unchecked(key, value) ==
    <<ReadConn("raise")>> \o execute(ADD_ITEM, key, encode(value), FALSE)
    \o (IF autocommit THEN SqliteDict_commit(TRUE) ELSE <<>>)

\* SqliteDict.__setitem__
setitem(key, value) ==
    IF flag = "r" THEN Denied
    ELSE <<ReadConn("raise")>> \o execute(ADD_ITEM, key, encode(value), FALSE)
         \o (IF autocommit THEN SqliteDict_commit(TRUE) ELSE <<>>)

getitem_nowait(key) ==
    <<ReadConn("raise")>> \o execute(GET_ITEM, key, <<>>, TRUE)

\* SqliteDict.__getitem__
getitem(key) ==
    <<ReadConn("raise")>> \o select_one(GET_ITEM, key) \o <<I("item")>>

get_strict(key) ==
    getitem(key)

\* SqliteDict.get, inherited from Mapping: try: return self[key]
\* except KeyError: return default (None)
get(key) ==
    <<ReadConn("raise")>> \o select_one(GET_ITEM, key) \o <<I("default")>>

\* one turn of the loop of select: res.get(), check_raise_error, and the
\* yield (or the end at NO_MORE); "next" is the generator waiting to be asked
Turn(req) ==
    <<I("next"), I("get"), I("check"), [I("yield") EXCEPT !.req = req]>>

iterate_eager(req) ==
    <<ReadConn("raise")>> \o execute(req, 0, <<>>, TRUE) \o Turn(req)

\* SqliteDict.iterkeys / itervalues / iteritems: generators over
\* self.conn.select(req); nothing runs before the first element is asked for
iterate(req) ==
    <<I("next"), ReadConn("raise")>> \o execute(req, 0, <<>>, TRUE)
    \o Tail(Turn(req))

\* what the generator yields for a row of its select
Yielded(req, rec) ==
    IF req = GET_KEYS THEN rec[1]
    ELSE IF req = GET_VALUES THEN decode(rec[1])
    ELSE <<rec[1], decode(rec[2])>>

\* SqliteDict.__len__: self.conn.select_one(GET_LEN)[0]
len ==
    <<ReadConn("raise")>> \o select_one(GET_LEN, 0) \o <<I("len")>>

contains_skip(key) ==
    <<ReadConn("raise")>>

\* SqliteDict.__contains__
contains(key) ==
    <<ReadConn("raise")>> \o select_one(HAS_ITEM, key)

delitem_deletefirst(key) ==
    IF flag = "r" THEN Denied
    ELSE <<ReadConn("raise")>> \o execute(DEL_ITEM, key, <<>>, FALSE)
         \o contains(key) \o <<[I("ifnone") EXCEPT !.none = "KeyError"]>>
         \o (IF autocommit THEN SqliteDict_commit(TRUE) ELSE <<>>)

\* SqliteDict.__delitem__
delitem(key) ==
    IF flag = "r" THEN Denied
    ELSE contains(key) \o <<[I("ifnone") EXCEPT !.none = "KeyError"]>>
         \o <<ReadConn("raise")>> \o execute(DEL_ITEM, key, <<>>, FALSE)
         \o (IF autocommit THEN SqliteDict_commit(TRUE) ELSE <<>>)

\* SqliteMultiThread.executemany: execute per item, then check_raise_error
RECURSIVE executemany(_, _)
executemany(req, items) ==
    IF items = <<>> THEN <<I("check")>>
    ELSE execute(req, Head(items)[1], Head(items)[2], FALSE)
         \o executemany(req, Tail(items))

\* SqliteDict.update(items) without keyword items
update(items) ==
    IF flag = "r" THEN Denied
    ELSE <<ReadConn("raise")>>
         \o executemany(ADD_ITEM, [i \in DOMAIN items |->
                                       <<items[i][1], encode(items[i][2])>>])
         \o (IF autocommit THEN SqliteDict_commit(TRUE) ELSE <<>>)

clear_nocommit ==
    IF flag = "r" THEN Denied
    ELSE <<ReadConn("raise")>> \o commit(TRUE)
         \o <<ReadConn("raise")>> \o execute(CLEAR_ALL, 0, <<>>, FALSE)

\* SqliteDict.clear: self.conn.commit(); execute(CLEAR_ALL); self.conn.commit()
clear ==
    IF flag = "r" THEN Denied
    ELSE <<ReadConn("raise")>> \o commit(TRUE)
         \o <<ReadConn("raise")>> \o execute(CLEAR_ALL, 0, <<>>, FALSE)
         \o <<ReadConn("raise")>> \o commit(TRUE)

\* SqliteDict.close: self.conn is read for the test against None, for
\* .autocommit, for .commit, for .close, and then set to None
SqliteDict_close(force) ==
    IfConn(<<ReadConn("raise")>>
           \o (IF autocommit /\ ~force
               THEN <<ReadConn("raise")>> \o commit(TRUE) ELSE <<>>)
           \o <<ReadConn("raise")>> \o close(force) \o <<I("setnone")>>)

\* SqliteDict.terminate of a store kept in a file
terminate ==
    IF flag = "r" THEN Denied
    ELSE SqliteDict_close(FALSE) \o <<I("remove")>>

\* SqliteDict.__init__ from line 133 on, with a valid flag and an existing
\* directory
SqliteDict_init ==
    (IF flag = "n" THEN <<I("fresh")>> ELSE <<>>)
    \o <<I("newconn")>>
    \o <<ReadConn("raise")>> \o execute(MAKE_TABLE, 0, <<>>, FALSE)
    \o <<ReadConn("raise")>> \o commit(TRUE)
    \o (IF flag = "w" THEN clear ELSE <<>>)

\* SqliteDict.__enter__
enter ==
    <<I("entertest"), I("newconn")>>

\* conn.execute / conn.select_one of a statement the engine rejects
execute_bad ==
    <<ReadConn("raise")>> \o execute(BAD_STMT, 0, <<>>, FALSE)

select_one_bad ==
    <<ReadConn("raise")>> \o select_one(BAD_STMT, 0)

\* ------------------------------------------------------- caller threads
Running(c) ==
    th[c].status = "running"

Ins(c) ==
    Head(th[c].prog)

\* the thread record after its current instruction completed normally
Advanced(t) ==
    [t EXCEPT !.prog = Tail(@),
              !.status = IF Tail(t.prog) = <<>> THEN "ok" ELSE "running"]

\* the method found self.conn to be None and skipped what it guards
Returned(t) ==
    LET rest == SubSeq(t.prog, 2 + Head(t.prog).key, Len(t.prog))
    IN [t EXCEPT !.prog = rest,
                 !.status = IF rest = <<>> THEN "ok" ELSE "running",
                 !.noconn = TRUE]

Raised(t, err, id) ==
    [t EXCEPT !.prog = <<>>, !.status = "raised", !.err = err, !.errid = id]

\* a facade call begins; at most `budget` calls are made in one run
StartWithin(budget, c, name, key, val, arg, prog) ==
    /\ ~Running(c)
    /\ nops < budget
    /\ nops' = nops + 1
    /\ th' = [th EXCEPT ![c] = [IdleThread EXCEPT !.prog = prog,
                  !.status = "running", !.name = name, !.key = key,
                  !.val = val, !.flag = arg]]
    /\ UNCHANGED <<conn, autocommit, flag, file, svc, nworkers, chan, nextid, enq, raised>>
    /\ UNCHANGED workerVars

Start(c, name, key, val, arg, prog) ==
    StartWithin(MaxOps, c, name, key, val, arg, prog)

Call_setitem(c) ==
    \E k \in Keys, v \in Vals : Start(c, "setitem", k, v, FALSE, setitem(k, v))

Call_getitem(c) ==
    \E k \in Keys : Start(c, "getitem", k, 0, FALSE, getitem(k))

Call_delitem(c) ==
    \E k \in Keys : Start(c, "delitem", k, 0, FALSE, delitem(k))

Call_commit(c) ==
    \E b \in BOOLEAN : Start(c, "commit", 0, 0, b, SqliteDict_commit(b))

Call_close(c) ==
    \E f \in BOOLEAN : Start(c, "close", 0, 0, f, SqliteDict_close(f))

Call_execute_bad(c) ==
    Start(c, "execute_bad", 0, 0, FALSE, execute_bad)

Call_select_one_bad(c) ==
    Start(c, "select_one_bad", 0, 0, FALSE, select_one_bad)

Entering ==
    {c \in Callers : Running(c) /\ th[c].name = "enter"}

Call_enter(c) ==
    /\ nworkers + Cardinality(Entering) < NumWorkers
    /\ Start(c, "enter", 0, 0, FALSE, enter)

\* a read of self.conn at the start of a method call on it
Step_conn(c) ==
    /\ Running(c) /\ Ins(c).i = "conn"
    /\ th' = [th EXCEPT ![c] =
                IF conn # None THEN [Advanced(@) EXCEPT !.cw = conn]
                ELSE IF Ins(c).none = "raise"
                     THEN Raised(@, "AttributeError", 0)
                     ELSE Returned(@)]
    /\ UNCHANGED <<conn, autocommit, flag, file, svc, nworkers, chan, nops, nextid, enq, raised>>
    /\ UNCHANGED workerVars

\* check_raise_error, line 480: if self.exception
Step_check(c) ==
    /\ Running(c) /\ Ins(c).i = "check"
    /\ th' = [th EXCEPT ![c] =
                IF exception[th[c].cw] = None THEN Advanced(@)
                ELSE [@ EXCEPT !.prog = <<I("load"), I("clear")>>]]
    /\ UNCHANGED <<conn, autocommit, flag, file, svc, nworkers, chan, nops, nextid, enq, raised>>
    /\ UNCHANGED workerVars

\* check_raise_error, line 481: e_type, e_value, e_tb = self.exception
Step_load(c) ==
    /\ Running(c) /\ Ins(c).i = "load"
    /\ th' = [th EXCEPT ![c] =
                IF exception[th[c].cw] = None THEN Raised(@, "TypeError", 0)
                ELSE [Advanced(@) EXCEPT !.e = exception[th[c].cw]]]
    /\ UNCHANGED <<conn, autocommit, flag, file, svc, nworkers, chan, nops, nextid, enq, raised>>
    /\ UNCHANGED workerVars

Count(f, x) ==
    IF x \in DOMAIN f THEN f[x] ELSE 0

Bump(f, x) ==
    [y \in DOMAIN f \cup {x} |-> Count(f, y) + (IF y = x THEN 1 ELSE 0)]

\* check_raise_error, lines 485-498: self.exception = None; re_raise(...)
Step_clear(c) ==
    /\ Running(c) /\ Ins(c).i = "clear"
    /\ exception' = [exception EXCEPT ![th[c].cw] = None]
    /\ th' = [th EXCEPT ![c] = Raised(@, "sqlite3.Error", th[c].e)]
    /\ raised' = Bump(raised, th[c].e)
    /\ UNCHANGED <<conn, autocommit, flag, file, svc, nworkers, chan, nops, nextid, enq>>
    /\ UNCHANGED <<wpc, reqs, cur, rows, connopen, txn, committed, applied,
                   pend, durable, lost, recorded, seen, sentinels>>

\* self.reqs.put((req, arg, res, stack))
Step_put(c) ==
    /\ Running(c) /\ Ins(c).i = "put"
    /\ LET w == th[c].cw
           cmd == [id |-> nextid, req |-> Ins(c).req, key |-> Ins(c).key,
                   val |-> Ins(c).val,
                   res |-> IF Ins(c).res THEN nextid ELSE None, by |-> c]
       IN /\ reqs' = [reqs EXCEPT ![w] = QueuePut(@, cmd)]
          /\ enq' = [enq EXCEPT ![w] = Append(@, cmd)]
          /\ chan' = IF Ins(c).res THEN chan @@ (nextid :> <<>>) ELSE chan
          /\ th' = [th EXCEPT ![c] = [Advanced(@) EXCEPT
                       !.res = IF Ins(c).res THEN nextid ELSE @,
                       !.sent = Append(@, nextid)]]
    /\ nextid' = nextid + 1
    /\ UNCHANGED <<conn, autocommit, flag, file, svc, nworkers, nops, raised>>
    /\ UNCHANGED <<wpc, exception, cur, rows, connopen, txn, committed,
                   applied, pend, durable, lost, recorded, seen, sentinels>>

\* rec = res.get(), blocking while the result queue is empty
Step_get(c) ==
    /\ Running(c) /\ Ins(c).i = "get"
    /\ chan[th[c].res] # <<>>
    /\ th' = [th EXCEPT ![c] = [Advanced(@) EXCEPT
                 !.rec = QueueGet(chan[th[c].res])[1]]]
    /\ chan' = [chan EXCEPT ![th[c].res] = QueueGet(@)[2]]
    /\ UNCHANGED <<conn, autocommit, flag, file, svc, nworkers, nops, nextid, enq, raised>>
    /\ UNCHANGED workerVars

\* what the caller does with the result of select_one; under "default" the
\* KeyError of __getitem__ is caught by get, which returns its default
Step_result(c) ==
    /\ Running(c) /\ Ins(c).i \in {"item", "ifnone", "default", "len"}
    /\ th' = [th EXCEPT ![c] =
                IF th[c].rec.t = NO_MORE
                THEN IF Ins(c).i = "default"
                     THEN [Advanced(@) EXCEPT !.result = <<None>>]
                     ELSE IF Ins(c).i = "len"
                          THEN Raised(@, "TypeError", 0)
                          ELSE Raised(@, "KeyError", 0)
                ELSE IF Ins(c).i \in {"item", "default"}
                     THEN [Advanced(@) EXCEPT !.result = <<decode(th[c].rec.v[1])>>]
                     ELSE IF Ins(c).i = "len"
                          THEN [Advanced(@) EXCEPT !.result = <<th[c].rec.v[1]>>]
                          ELSE Advanced(@)]
    /\ UNCHANGED <<conn, autocommit, flag, file, svc, nworkers, chan, nops, nextid, enq, raised>>
    /\ UNCHANGED workerVars

\* next() on the generator of an iteration
Step_next(c) ==
    /\ Running(c) /\ Ins(c).i = "next"
    /\ th' = [th EXCEPT ![c] = [Advanced(@) EXCEPT !.flag = TRUE]]
    /\ UNCHANGED <<conn, autocommit, flag, file, svc, nworkers, chan, nops, nextid, enq, raised>>
    /\ UNCHANGED workerVars

\* select, lines 531-533: if rec == NO_MORE: break; yield rec
Step_yield(c) ==
    /\ Running(c) /\ Ins(c).i = "yield"
    /\ th' = [th EXCEPT ![c] =
                IF th[c].rec.t = NO_MORE THEN Advanced(@)
                ELSE [@ EXCEPT !.prog = Turn(Ins(c).req),
                               !.result = Append(@, Yielded(Ins(c).req, th[c].rec.v))]]
    /\ UNCHANGED <<conn, autocommit, flag, file, svc, nworkers, chan, nops, nextid, enq, raised>>
    /\ UNCHANGED workerVars

\* self.join()
Step_join(c) ==
    /\ Running(c) /\ Ins(c).i = "join"
    /\ wpc[th[c].cw] = "done"
    /\ th' = [th EXCEPT ![c] = Advanced(@)]
    /\ UNCHANGED <<conn, autocommit, flag, file, svc, nworkers, chan, nops, nextid, enq, raised>>
    /\ UNCHANGED workerVars

\* self.conn = None
Step_setnone(c) ==
    /\ Running(c) /\ Ins(c).i = "setnone"
    /\ conn' = None
    /\ th' = [th EXCEPT ![c] = Advanced(@)]
    /\ UNCHANGED <<autocommit, flag, file, svc, nworkers, chan, nops, nextid, enq, raised>>
    /\ UNCHANGED workerVars

\* __enter__: if not hasattr(self, "conn") or self.conn is None
Step_entertest(c) ==
    /\ Running(c) /\ Ins(c).i = "entertest"
    /\ th' = [th EXCEPT ![c] =
                IF conn = None THEN Advanced(@)
                ELSE [@ EXCEPT !.prog = <<>>, !.status = "ok"]]
    /\ UNCHANGED <<conn, autocommit, flag, file, svc, nworkers, chan, nops, nextid, enq, raised>>
    /\ UNCHANGED workerVars

\* __enter__: self.conn = self._new_conn(), which starts a worker thread
Step_newconn(c) ==
    /\ Running(c) /\ Ins(c).i = "newconn"
    /\ nworkers < NumWorkers
    /\ nworkers' = nworkers + 1
    /\ wpc' = [wpc EXCEPT ![nworkers + 1] = "connect"]
    /\ conn' = nworkers + 1
    /\ th' = [th EXCEPT ![c] = Advanced(@)]
    /\ UNCHANGED <<autocommit, flag, file, svc, chan, nops, nextid, enq, raised>>
    /\ UNCHANGED <<reqs, exception, cur, rows, connopen, txn, committed,
                   applied, pend, durable, lost, recorded, seen, sentinels>>

\* __init__: if flag == "n" and os.path.exists(filename): os.remove(filename)
Step_fresh(c) ==
    /\ Running(c) /\ Ins(c).i = "fresh"
    /\ file' = FALSE
    /\ committed' = InitialTable
    /\ th' = [th EXCEPT ![c] = Advanced(@)]
    /\ UNCHANGED <<conn, autocommit, flag, svc, nworkers, chan, nops, nextid, enq, raised>>
    /\ UNCHANGED <<wpc, reqs, exception, cur, rows, connopen, txn, applied,
                   pend, durable, lost, recorded, seen, sentinels>>

\* raise RuntimeError("Refusing to ... read-only SqliteDict")
Step_deny(c) ==
    /\ Running(c) /\ Ins(c).i = "deny"
    /\ th' = [th EXCEPT ![c] = Raised(@, "RuntimeError", 0)]
    /\ UNCHANGED <<conn, autocommit, flag, file, svc, nworkers, chan, nops, nextid, enq, raised>>
    /\ UNCHANGED workerVars

\* terminate: if os.path.isfile(self.filename): os.remove(self.filename)
Step_remove(c) ==
    /\ Running(c) /\ Ins(c).i = "remove"
    /\ file' = FALSE
    /\ th' = [th EXCEPT ![c] = Advanced(@)]
    /\ UNCHANGED <<conn, autocommit, flag, svc, nworkers, chan, nops, nextid, enq, raised>>
    /\ UNCHANGED workerVars

\* -------------------------------------------------------- worker thread
\* __db_connect: isolation_level=None (every statement commits itself) when
\* autocommit, the default implicit transactions otherwise
ImplicitTxn ==
    ~autocommit

\* the table a connection reads: its own pending transaction, if any
View(w) ==
    IF txn[w] # NoTxn THEN txn[w] ELSE committed

\* sqlite allows one writer: a write fails while another connection holds
\* a pending transaction ("database is locked")
Locked(w) ==
    \E o \in Workers \ {w} : txn[o] # NoTxn

Fails(w, cmd) ==
    \/ cmd.req = BAD_STMT
    \/ cmd.key = Unbindable
    \/ cmd.req \in Writes /\ Locked(w)

AfterStatement_raise(failed, res) ==
    IF failed THEN "dead" ELSE IF res # None THEN "put" ELSE "get"

\* run(), lines 429-464: the except clause swallows the failure, then the
\* rows go to res if there is one, else back to the head of the loop
AfterStatement(failed, res) ==
    IF res # None THEN "put" ELSE "get"

\* run(), lines 466-468: conn.close(), res.put(NO_MORE), end of the thread
ClosePath ==
    <<"release", "ack", "exit", "done">>

NextOnPath(pc) ==
    ClosePath[1 + CHOOSE i \in 1..Len(ClosePath) : ClosePath[i] = pc]

\* req, arg, res, outer_stack = self.reqs.get()
W_get(w) ==
    /\ wpc[w] = "get"
    /\ reqs[w] # <<>>
    /\ LET cmd == QueueGet(reqs[w])[1]
       IN /\ reqs' = [reqs EXCEPT ![w] = QueueGet(reqs[w])[2]]
          /\ cur' = [cur EXCEPT ![w] = cmd]
          /\ applied' = [applied EXCEPT ![w] = Append(@, cmd)]
          /\ wpc' = [wpc EXCEPT ![w] =
                        IF cmd.req = CLOSE THEN ClosePath[1] ELSE "exec"]
    /\ UNCHANGED <<conn, autocommit, flag, file, svc, nworkers, exception, rows, connopen, txn,
                   committed, chan, th, nops, nextid, enq, pend, durable,
                   lost, raised, recorded, seen, sentinels>>

\* conn.commit() on the state <<txn, committed, pend, durable>>
Committing(s) ==
    <<NoTxn, IF s[1] # NoTxn THEN s[1] ELSE s[2], {}, s[4] \cup s[3]>>

\* cursor.execute(req, arg) on the state <<txn, committed, pend, durable>>
Executing(w, cmd, s) ==
    IF cmd.req \notin Writes THEN s
    ELSE IF ImplicitTxn
         THEN <<Effect(cmd.req, cmd.key, cmd.val, View(w)), s[2],
                s[3] \cup {cmd.id}, s[4]>>
         ELSE <<s[1], Effect(cmd.req, cmd.key, cmd.val, s[2]), s[3],
                s[4] \cup {cmd.id}>>

DbState(w) ==
    <<txn[w], committed, pend[w], durable>>

SetDb(w, s) ==
    /\ txn' = [txn EXCEPT ![w] = s[1]]
    /\ committed' = s[2]
    /\ pend' = [pend EXCEPT ![w] = s[3]]
    /\ durable' = s[4]

\* run(), lines 424-427: the commit request
W_commit(w) ==
    /\ wpc[w] = "exec"
    /\ cur[w].req = COMMIT
    /\ SetDb(w, Committing(DbState(w)))
    /\ chan' = IF cur[w].res # None
               THEN [chan EXCEPT ![cur[w].res] = QueuePut(@, NoMoreItem)]
               ELSE chan
    /\ sentinels' = IF cur[w].res # None THEN Bump(sentinels, cur[w].res)
                    ELSE sentinels
    /\ wpc' = [wpc EXCEPT ![w] = "get"]
    /\ UNCHANGED <<conn, autocommit, flag, file, svc, nworkers, reqs, exception, cur, rows,
                   connopen, th, nops, nextid, enq, applied, lost, raised,
                   recorded, seen>>

\* run(), lines 429-457 and 463-464: a statement
W_exec(w) ==
    /\ wpc[w] = "exec"
    /\ cur[w].req # COMMIT
    /\ LET cmd == cur[w]
           failed == Fails(w, cmd)
           s1 == IF failed THEN DbState(w) ELSE Executing(w, cmd, DbState(w))
           after == AfterStatement(failed, cmd.res)
       IN /\ exception' = IF failed THEN [exception EXCEPT ![w] = cmd.id]
                          ELSE exception
          /\ recorded' = IF failed THEN Append(recorded, cmd.id) ELSE recorded
          /\ rows' = [rows EXCEPT ![w] =
                         IF failed THEN <<>>
                         ELSE RowsOf(cmd.req, cmd.key, View(w))]
          /\ seen' = seen @@ (cmd.id :> rows'[w])
          /\ SetDb(w, IF after = "get" /\ autocommit THEN Committing(s1) ELSE s1)
          /\ wpc' = [wpc EXCEPT ![w] = after]
    /\ UNCHANGED <<conn, autocommit, flag, file, svc, nworkers, reqs, cur, connopen, chan, th,
                   nops, nextid, enq, applied, lost, raised, sentinels>>

W_put_norows(w) ==
    /\ wpc[w] = "put"
    /\ chan' = [chan EXCEPT ![cur[w].res] = QueuePut(@, NoMoreItem)]
    /\ sentinels' = Bump(sentinels, cur[w].res)
    /\ SetDb(w, IF autocommit THEN Committing(DbState(w)) ELSE DbState(w))
    /\ wpc' = [wpc EXCEPT ![w] = "get"]
    /\ rows' = [rows EXCEPT ![w] = <<>>]
    /\ UNCHANGED <<conn, autocommit, flag, file, svc, nworkers, reqs, exception, cur, connopen,
                   th, nops, nextid, enq, applied, lost, raised, recorded,
                   seen>>

\* run(), lines 458-464: the rows, the sentinel, the autocommit
W_put(w) ==
    /\ wpc[w] = "put"
    /\ IF rows[w] # <<>>
       THEN /\ chan' = [chan EXCEPT ![cur[w].res] = QueuePut(@, Row(Head(rows[w])))]
            /\ rows' = [rows EXCEPT ![w] = Tail(@)]
            /\ UNCHANGED <<wpc, txn, committed, pend, durable, sentinels>>
       ELSE /\ chan' = [chan EXCEPT ![cur[w].res] = QueuePut(@, NoMoreItem)]
            /\ sentinels' = Bump(sentinels, cur[w].res)
            /\ SetDb(w, IF autocommit THEN Committing(DbState(w)) ELSE DbState(w))
            /\ wpc' = [wpc EXCEPT ![w] = "get"]
            /\ UNCHANGED rows
    /\ UNCHANGED <<conn, autocommit, flag, file, svc, nworkers, reqs, exception, cur, connopen,
                   th, nops, nextid, enq, applied, lost, raised, recorded,
                   seen>>

\* conn.close(): a pending transaction is not committed
W_release(w) ==
    /\ wpc[w] = "release"
    /\ connopen' = [connopen EXCEPT ![w] = FALSE]
    /\ txn' = [txn EXCEPT ![w] = NoTxn]
    /\ lost' = lost \cup pend[w]
    /\ pend' = [pend EXCEPT ![w] = {}]
    /\ wpc' = [wpc EXCEPT ![w] = NextOnPath("release")]
    /\ UNCHANGED <<conn, autocommit, flag, file, svc, nworkers, reqs, exception, cur, rows,
                   committed, chan, th, nops, nextid, enq, applied, durable,
                   raised, recorded, seen, sentinels>>

\* res.put(NO_MORE) after the loop
W_ack(w) ==
    /\ wpc[w] = "ack"
    /\ chan' = [chan EXCEPT ![cur[w].res] = QueuePut(@, NoMoreItem)]
    /\ sentinels' = Bump(sentinels, cur[w].res)
    /\ wpc' = [wpc EXCEPT ![w] = NextOnPath("ack")]
    /\ UNCHANGED <<conn, autocommit, flag, file, svc, nworkers, reqs, exception, cur, rows,
                   connopen, txn, committed, th, nops, nextid, enq, applied,
                   pend, durable, lost, raised, recorded, seen>>

\* run() returns: the thread is no longer alive
W_exit(w) ==
    /\ wpc[w] = "exit"
    /\ wpc' = [wpc EXCEPT ![w] = NextOnPath("exit")]
    /\ UNCHANGED <<conn, autocommit, flag, file, svc, nworkers, reqs, exception, cur, rows,
                   connopen, txn, committed, chan, th, nops, nextid, enq,
                   applied, pend, durable, lost, raised, recorded, seen,
                   sentinels>>

\* run(), lines 416-417: __db_connect and __set_pragmas
W_connect(w) ==
    /\ wpc[w] = "connect"
    /\ connopen' = [connopen EXCEPT ![w] = TRUE]
    /\ file' = TRUE
    /\ wpc' = [wpc EXCEPT ![w] = "get"]
    /\ UNCHANGED <<conn, autocommit, flag, svc, nworkers, reqs, exception, cur, rows,
                   txn, committed, chan, th, nops, nextid, enq, applied,
                   pend, durable, lost, raised, recorded, seen, sentinels>>

\* run(), lines 416-417, when sqlite3.connect or a PRAGMA raises: the
\* failure is stored in self.exception and run() ends with it
W_connect_fail(w) ==
    /\ wpc[w] = "connect"
    /\ \E e \in {ConnectionFailure, ConfigurationFailure} :
           /\ exception' = [exception EXCEPT ![w] = e]
           /\ recorded' = Append(recorded, e)
           /\ connopen' = [connopen EXCEPT ![w] = (e = ConfigurationFailure)]
           /\ file' = (file \/ e = ConfigurationFailure)
    /\ wpc' = [wpc EXCEPT ![w] = "failed"]
    /\ UNCHANGED <<conn, autocommit, flag, svc, nworkers, reqs, cur, rows,
                   txn, committed, chan, th, nops, nextid, enq, applied,
                   pend, durable, lost, raised, seen, sentinels>>

\* ---------------------------------------------------------- specifications
CallerStep(c) ==
    \/ Step_conn(c)
    \/ Step_check(c)
    \/ Step_load(c)
    \/ Step_clear(c)
    \/ Step_put(c)
    \/ Step_get(c)
    \/ Step_result(c)
    \/ Step_join(c)
    \/ Step_setnone(c)

CallerCall(c) ==
    \/ Call_setitem(c)
    \/ Call_getitem(c)
    \/ Call_delitem(c)
    \/ Call_commit(c)
    \/ Call_close(c)
    \/ Call_execute_bad(c)
    \/ Call_select_one_bad(c)

WorkerNext(w) ==
    \/ W_get(w)
    \/ W_commit(w)
    \/ W_exec(w)
    \/ W_put(w)
    \/ W_release(w)
    \/ W_ack(w)
    \/ W_exit(w)

\* one store between its construction and its close
Next ==
    \/ \E c \in Callers : CallerCall(c)
    \/ \E c \in Callers : CallerStep(c)
    \/ \E w \in Workers : WorkerNext(w)

Spec ==
    Init /\ [][Next]_vars

\* the same store when it may also be re-entered as a context manager
NextLife ==
    \/ Next
    \/ \E c \in Callers : Call_enter(c)
    \/ \E c \in Callers : Step_entertest(c)
    \/ \E c \in Callers : Step_newconn(c)
    \/ \E w \in Workers : W_connect(w)

SpecLife ==
    Init /\ [][NextLife]_vars

TypeOK ==
    /\ conn \in {None} \cup Workers
    /\ nops \in 0..MaxOps


\* ------------------------------------------------- a store that stays open
Call_clear(c) ==
    Start(c, "clear", 0, 0, FALSE, clear)

\* a store whose callers set and get items, commit and clear; no statement
\* fails and nobody closes it
NextKV ==
    \/ \E c \in Callers : Call_setitem(c)
    \/ \E c \in Callers : Call_getitem(c)
    \/ \E c \in Callers : Call_commit(c)
    \/ \E c \in Callers : Call_clear(c)
    \/ \E c \in Callers : Step_conn(c)
    \/ \E c \in Callers : Step_check(c)
    \/ \E c \in Callers : Step_put(c)
    \/ \E c \in Callers : Step_get(c)
    \/ \E c \in Callers : Step_result(c)
    \/ \E w \in Workers : W_get(w)
    \/ \E w \in Workers : W_commit(w)
    \/ \E w \in Workers : W_exec(w)
    \/ \E w \in Workers : W_put(w)

SpecKV ==
    Init /\ [][NextKV]_vars

\* ------------------------------------------------ statements that fail
Fail_setitem(c) ==
    \E k \in Keys \cup {Unbindable} :
        Start(c, "setitem", k, 1, FALSE, setitem(k, 1))

\* a store whose callers set items and run raw statements, some of which
\* the engine rejects; nobody closes it
NextFail ==
    \/ \E c \in Callers : Fail_setitem(c)
    \/ \E c \in Callers : Call_execute_bad(c)
    \/ \E c \in Callers : Call_select_one_bad(c)
    \/ \E c \in Callers : Step_conn(c)
    \/ \E c \in Callers : Step_check(c)
    \/ \E c \in Callers : Step_load(c)
    \/ \E c \in Callers : Step_clear(c)
    \/ \E c \in Callers : Step_put(c)
    \/ \E c \in Callers : Step_get(c)
    \/ \E w \in Workers : W_get(w)
    \/ \E w \in Workers : W_commit(w)
    \/ \E w \in Workers : W_exec(w)
    \/ \E w \in Workers : W_put(w)

SpecFail ==
    Init /\ [][NextFail]_vars

\* ---------------------------------------- threads that close gracefully
Close_graceful(c) ==
    Start(c, "close", 0, 0, FALSE, SqliteDict_close(FALSE))

\* the next statement of the method that caller c is in
CloseStep(c) ==
    \/ Step_conn(c)
    \/ Step_check(c)
    \/ Step_put(c)
    \/ Step_get(c)
    \/ Step_result(c)
    \/ Step_join(c)
    \/ Step_setnone(c)

\* the next statement of run() in worker w
CloseWork(w) ==
    \/ W_get(w)
    \/ W_commit(w)
    \/ W_exec(w)
    \/ W_put(w)
    \/ W_release(w)
    \/ W_ack(w)
    \/ W_exit(w)

\* a store whose callers get items and close it gracefully; no statement
\* fails
NextClose ==
    \/ \E c \in Callers : Close_graceful(c)
    \/ \E c \in Callers : Call_getitem(c)
    \/ \E c \in Callers : CloseStep(c)
    \/ \E w \in Workers : CloseWork(w)

\* every thread that can run its next statement is scheduled in the end:
\* a caller inside a method and the worker inside run() are threads of the
\* interpreter, and none of their statements waits for anything but a queue
\* item or the end of the worker
FairClose ==
    /\ \A c \in Callers : WF_vars(CloseStep(c))
    /\ \A w \in Workers : WF_vars(CloseWork(w))

SpecClose ==
    Init /\ [][NextClose]_vars /\ FairClose

\* ------------------------------------------- a store opened on existing rows
MaxItems == 2
MaxROOps == 2

\* the sequences of at most n elements of S
SeqsUpTo(S, n) ==
    UNION {[1..m -> S] : m \in 0..n}

\* the rows of the file before the store was opened on it
StoredTable ==
    << <<1, encode(1)>> >>

\* the store after SqliteDict(filename, flag) on a file that has a row
InitRO ==
    /\ conn = 1
    /\ autocommit \in BOOLEAN
    /\ flag \in {"r", "c"}
    /\ file = TRUE
    /\ svc = NoService
    /\ nworkers = 1
    /\ wpc = [w \in Workers |-> IF w = 1 THEN "get" ELSE "new"]
    /\ reqs = [w \in Workers |-> <<>>]
    /\ exception = [w \in Workers |-> None]
    /\ cur = [w \in Workers |-> NoCmd]
    /\ rows = [w \in Workers |-> <<>>]
    /\ connopen = [w \in Workers |-> w = 1]
    /\ txn = [w \in Workers |-> NoTxn]
    /\ committed = StoredTable
    /\ chan = <<>>
    /\ th = [c \in Callers |-> IdleThread]
    /\ nops = 0
    /\ nextid = 1
    /\ enq = [w \in Workers |-> <<>>]
    /\ applied = [w \in Workers |-> <<>>]
    /\ pend = [w \in Workers |-> {}]
    /\ durable = {}
    /\ lost = {}
    /\ raised = <<>>
    /\ recorded = <<>>
    /\ seen = <<>>
    /\ sentinels = <<>>

RO_setitem(c) ==
    \E k \in Keys, v \in Vals :
        StartWithin(MaxROOps, c, "setitem", k, v, FALSE, setitem(k, v))

RO_delitem(c) ==
    \E k \in Keys : StartWithin(MaxROOps, c, "delitem", k, 0, FALSE, delitem(k))

RO_update(c) ==
    \E items \in SeqsUpTo(Keys \X Vals, MaxItems) :
        StartWithin(MaxROOps, c, "update", 0, 0, FALSE, update(items))

RO_clear(c) ==
    StartWithin(MaxROOps, c, "clear", 0, 0, FALSE, clear)

RO_terminate(c) ==
    StartWithin(MaxROOps, c, "terminate", 0, 0, FALSE, terminate)

RO_getitem(c) ==
    \E k \in Keys : StartWithin(MaxROOps, c, "getitem", k, 0, FALSE, getitem(k))

NextRO ==
    \/ \E c \in Callers : RO_setitem(c)
    \/ \E c \in Callers : RO_delitem(c)
    \/ \E c \in Callers : RO_update(c)
    \/ \E c \in Callers : RO_clear(c)
    \/ \E c \in Callers : RO_terminate(c)
    \/ \E c \in Callers : RO_getitem(c)
    \/ \E c \in Callers : Step_conn(c)
    \/ \E c \in Callers : Step_check(c)
    \/ \E c \in Callers : Step_put(c)
    \/ \E c \in Callers : Step_get(c)
    \/ \E c \in Callers : Step_result(c)
    \/ \E c \in Callers : Step_join(c)
    \/ \E c \in Callers : Step_setnone(c)
    \/ \E c \in Callers : Step_deny(c)
    \/ \E c \in Callers : Step_remove(c)
    \/ \E w \in Workers : WorkerNext(w)

\* no statement of these calls fails, so check_raise_error never raises
SpecRO ==
    InitRO /\ [][NextRO]_vars

\* ------------------------------------------------------ one caller, in turn
MaxSeq == 4

\* the thread that makes every call
Single == 1

Single_setitem ==
    \E k \in Keys, v \in Vals :
        StartWithin(MaxSeq, Single, "setitem", k, v, FALSE, setitem(k, v))

Single_delitem ==
    \E k \in Keys : StartWithin(MaxSeq, Single, "delitem", k, 0, FALSE, delitem(k))

Single_get ==
    \E k \in Keys : StartWithin(MaxSeq, Single, "get", k, 0, FALSE, get(k))

\* one thread sets, deletes and gets items of a store opened with flag "c",
\* each call after the one before has returned or raised
NextSingle ==
    \/ Single_setitem
    \/ Single_delitem
    \/ Single_get
    \/ \E c \in Callers : Step_conn(c)
    \/ \E c \in Callers : Step_check(c)
    \/ \E c \in Callers : Step_put(c)
    \/ \E c \in Callers : Step_get(c)
    \/ \E c \in Callers : Step_result(c)
    \/ \E w \in Workers : W_get(w)
    \/ \E w \in Workers : W_commit(w)
    \/ \E w \in Workers : W_exec(w)
    \/ \E w \in Workers : W_put(w)

SpecSingle ==
    Init /\ [][NextSingle]_vars

\* ------------------------------------------- callers that set their own keys
MaxPairOps == 2

\* the key a caller sets: distinct callers set distinct keys
OwnKey(c) ==
    c

\* caller c has called set and the call has returned
HasSet(c) ==
    /\ \E i \in 1..Len(enq[1]) : enq[1][i].req = ADD_ITEM /\ enq[1][i].by = c
    /\ ~(Running(c) /\ th[c].name = "setitem")
    /\ ~(th[c].name = "setitem" /\ th[c].status = "raised")

AllHaveSet ==
    \A c \in Callers : HasSet(c)

\* each caller sets its own key once, at any time
Pair_setitem(c) ==
    /\ th[c].status = "idle"
    /\ \E v \in Vals :
           StartWithin(MaxPairOps + NumCallers, c, "setitem", OwnKey(c), v, FALSE,
                       setitem(OwnKey(c), v))

\* once every set has returned, callers ask for the length and get the keys
Pair_len(c) ==
    /\ AllHaveSet
    /\ StartWithin(MaxPairOps + NumCallers, c, "len", 0, 0, FALSE, len)

Pair_getitem(c) ==
    /\ AllHaveSet
    /\ \E d \in Callers :
           StartWithin(MaxPairOps + NumCallers, c, "getitem", OwnKey(d), 0, FALSE,
                       getitem(OwnKey(d)))

NextPair ==
    \/ \E c \in Callers : Pair_setitem(c)
    \/ \E c \in Callers : Pair_len(c)
    \/ \E c \in Callers : Pair_getitem(c)
    \/ \E c \in Callers : Step_conn(c)
    \/ \E c \in Callers : Step_check(c)
    \/ \E c \in Callers : Step_put(c)
    \/ \E c \in Callers : Step_get(c)
    \/ \E c \in Callers : Step_result(c)
    \/ \E w \in Workers : W_get(w)
    \/ \E w \in Workers : W_commit(w)
    \/ \E w \in Workers : W_exec(w)
    \/ \E w \in Workers : W_put(w)

SpecPair ==
    Init /\ [][NextPair]_vars

\* ------------------------------------------------------- the service layer
MaxSvcCalls == 3

\* the books a caller may pass: a book_key and the rest of the book
Books ==
    Keys \X Vals

\* what repository_books.create_book may raise and `except Exception` covers
Exceptions ==
    {"Exception", "RuntimeError", "AttributeError", "sqlite3.Error"}

\* the text every message of a failed creation starts with
FailedCreate ==
    "Failed create book with details"

\* f"Failed create book with details: {book} ---> Error: {str(e)}"
Message(book, e) ==
    [head |-> FailedCreate, book |-> book, error |-> e]

\* everything but the service layer and the count of calls
storeVars ==
    <<conn, autocommit, flag, file, nworkers, chan, th, nextid, enq, raised>>

\* create_book(book) is called and enters its try block
Svc_call ==
    /\ svc.pc \in {"idle", "done"}
    /\ nops < MaxSvcCalls
    /\ nops' = nops + 1
    /\ \E b \in Books : svc' = [NoService EXCEPT !.pc = "try", !.book = b,
                                                  !.fn = "create_book"]
    /\ UNCHANGED storeVars
    /\ UNCHANGED workerVars

\* line 14: await repository_books.create_book(book)
Svc_await ==
    /\ svc.pc = "try"
    /\ svc' = [svc EXCEPT !.pc = "awaiting", !.awaited = Append(@, svc.book)]
    /\ UNCHANGED <<nops, storeVars>>
    /\ UNCHANGED workerVars

\* the repository call returns
Svc_repo_return ==
    /\ svc.pc = "awaiting"
    /\ svc' = [svc EXCEPT !.pc = "info"]
    /\ UNCHANGED <<nops, storeVars>>
    /\ UNCHANGED workerVars

\* the repository call raises
Svc_repo_raise ==
    /\ svc.pc = "awaiting"
    /\ \E e \in Exceptions : svc' = [svc EXCEPT !.pc = "except", !.e = e]
    /\ UNCHANGED <<nops, storeVars>>
    /\ UNCHANGED workerVars

\* line 15: logger.info(...); the function then returns None
Svc_info ==
    /\ svc.pc = "info"
    /\ svc' = [svc EXCEPT !.pc = "done", !.out = "returned",
                          !.log = Append(@, <<"INFO", svc.book>>)]
    /\ UNCHANGED <<nops, storeVars>>
    /\ UNCHANGED workerVars

\* lines 16-18: except Exception as e: msg = ...; logger.error(msg)
Svc_except ==
    /\ svc.pc = "except"
    /\ svc' = [svc EXCEPT !.pc = "raise", !.msg = Message(svc.book, svc.e),
                          !.log = Append(@, <<"ERROR", svc.book>>)]
    /\ UNCHANGED <<nops, storeVars>>
    /\ UNCHANGED workerVars

Svc_reraise ==
    /\ svc.pc = "raise"
    /\ svc' = [svc EXCEPT !.pc = "done", !.out = svc.e]
    /\ UNCHANGED <<nops, storeVars>>
    /\ UNCHANGED workerVars

\* line 19: raise ErrorBookCreation(msg)
Svc_raise ==
    /\ svc.pc = "raise"
    /\ svc' = [svc EXCEPT !.pc = "done", !.out = "ErrorBookCreation"]
    /\ UNCHANGED <<nops, storeVars>>
    /\ UNCHANGED workerVars

\* f"Book with UUID {book_key} not found"
NotFoundMessage(book_key) ==
    "Book with UUID " \o ToString(book_key) \o " not found"

\* read_book_by_book_key(book_key) is called and awaits the repository,
\* line 24
Svc_read_call ==
    /\ svc.pc \in {"idle", "done"}
    /\ nops < MaxSvcCalls
    /\ nops' = nops + 1
    /\ \E k \in Keys :
           svc' = [NoService EXCEPT !.pc = "reading", !.key = k,
                                    !.fn = "read_book_by_book_key",
                                    !.awaited = <<k>>]
    /\ UNCHANGED storeVars
    /\ UNCHANGED workerVars

\* the repository call returns a book, <<b>>, or None, <<>>
Svc_read_repo ==
    /\ svc.pc = "reading"
    /\ \E r \in {<<>>} \cup {<<b>> : b \in Books} :
           svc' = [svc EXCEPT !.pc = "test", !.got = r]
    /\ UNCHANGED <<nops, storeVars>>
    /\ UNCHANGED workerVars

Svc_read_missing_quiet ==
    /\ svc.pc = "test" /\ svc.got = <<>>
    /\ svc' = [svc EXCEPT !.pc = "done", !.out = "returned", !.ret = svc.got]
    /\ UNCHANGED <<nops, storeVars>>
    /\ UNCHANGED workerVars

\* lines 25-28: if book is None: msg = ...; logger.error(msg); raise
Svc_read_missing ==
    /\ svc.pc = "test" /\ svc.got = <<>>
    /\ svc' = [svc EXCEPT !.pc = "done", !.out = "ErrorBookNotFound",
                          !.msg = NotFoundMessage(svc.key),
                          !.log = Append(@, <<"ERROR", svc.key>>)]
    /\ UNCHANGED <<nops, storeVars>>
    /\ UNCHANGED workerVars

\* lines 29-30: logger.info(...); return book
Svc_read_found ==
    /\ svc.pc = "test" /\ svc.got # <<>>
    /\ svc' = [svc EXCEPT !.pc = "done", !.out = "returned", !.ret = svc.got,
                          !.log = Append(@, <<"INFO", svc.key>>)]
    /\ UNCHANGED <<nops, storeVars>>
    /\ UNCHANGED workerVars

NextSvc ==
    \/ Svc_call
    \/ Svc_await
    \/ Svc_repo_return
    \/ Svc_repo_raise
    \/ Svc_info
    \/ Svc_except
    \/ Svc_raise
    \/ Svc_read_call
    \/ Svc_read_repo
    \/ Svc_read_missing
    \/ Svc_read_found

\* calls of the service create_book, one after the other, on a repository
\* that returns or raises
SpecSvc ==
    Init /\ [][NextSvc]_vars

\* ------------------------------------------------------------- iterations
MaxIterOps == 4
NumIterKeys == 2

IterKeys ==
    1..NumIterKeys

Iterations ==
    {GET_KEYS, GET_VALUES, GET_ITEMS}

\* the thread that consumes the sequences; the other threads write
Consumer == 1

Iter_call(c) ==
    /\ c = Consumer
    /\ \E req \in Iterations :
           StartWithin(MaxIterOps, c, "iterate", 0, 0, FALSE, iterate(req))

Iter_setitem(c) ==
    /\ c # Consumer
    /\ \E k \in IterKeys, v \in Vals :
           StartWithin(MaxIterOps, c, "setitem", k, v, FALSE, setitem(k, v))

Iter_delitem(c) ==
    /\ c # Consumer
    /\ \E k \in Keys :
           StartWithin(MaxIterOps, c, "delitem", k, 0, FALSE, delitem(k))

\* callers set and delete items while sequences of keys, values and items
\* are being consumed
NextIter ==
    \/ \E c \in Callers : Iter_call(c)
    \/ \E c \in Callers : Iter_setitem(c)
    \/ \E c \in Callers : Iter_delitem(c)
    \/ \E c \in Callers : Step_conn(c)
    \/ \E c \in Callers : Step_check(c)
    \/ \E c \in Callers : Step_put(c)
    \/ \E c \in Callers : Step_get(c)
    \/ \E c \in Callers : Step_result(c)
    \/ \E c \in Callers : Step_next(c)
    \/ \E c \in Callers : Step_yield(c)
    \/ \E w \in Workers : W_get(w)
    \/ \E w \in Workers : W_commit(w)
    \/ \E w \in Workers : W_exec(w)
    \/ \E w \in Workers : W_put(w)

SpecIter ==
    Init /\ [][NextIter]_vars

\* ---------------------------------------------------- the store being opened
\* the thread that runs SqliteDict(filename, flag, autocommit)
Opener == 1

\* a caller has entered SqliteDict.__init__; no worker exists yet
InitOpen ==
    /\ conn = None
    /\ autocommit \in BOOLEAN
    /\ flag \in {"c", "w", "r", "n"}
    /\ file \in BOOLEAN
    /\ svc = NoService
    /\ nworkers = 0
    /\ wpc = [w \in Workers |-> "new"]
    /\ reqs = [w \in Workers |-> <<>>]
    /\ exception = [w \in Workers |-> None]
    /\ cur = [w \in Workers |-> NoCmd]
    /\ rows = [w \in Workers |-> <<>>]
    /\ connopen = [w \in Workers |-> FALSE]
    /\ txn = [w \in Workers |-> NoTxn]
    /\ committed \in (IF file THEN {InitialTable, StoredTable} ELSE {InitialTable})
    /\ chan = <<>>
    /\ th = [c \in Callers |->
                IF c = Opener
                THEN [IdleThread EXCEPT !.prog = SqliteDict_init,
                                        !.status = "running", !.name = "__init__"]
                ELSE IdleThread]
    /\ nops = 0
    /\ nextid = 1
    /\ enq = [w \in Workers |-> <<>>]
    /\ applied = [w \in Workers |-> <<>>]
    /\ pend = [w \in Workers |-> {}]
    /\ durable = {}
    /\ lost = {}
    /\ raised = <<>>
    /\ recorded = <<>>
    /\ seen = <<>>
    /\ sentinels = <<>>

\* the constructor and the start of the worker it creates
NextOpen ==
    \/ \E c \in Callers : Step_fresh(c)
    \/ \E c \in Callers : Step_newconn(c)
    \/ \E c \in Callers : Step_conn(c)
    \/ \E c \in Callers : Step_check(c)
    \/ \E c \in Callers : Step_load(c)
    \/ \E c \in Callers : Step_clear(c)
    \/ \E c \in Callers : Step_put(c)
    \/ \E c \in Callers : Step_get(c)
    \/ \E w \in Workers : W_connect(w)
    \/ \E w \in Workers : W_connect_fail(w)
    \/ \E w \in Workers : W_get(w)
    \/ \E w \in Workers : W_commit(w)
    \/ \E w \in Workers : W_exec(w)

SpecOpen ==
    InitOpen /\ [][NextOpen]_vars

\* ------------------------------------------------------ reading histories
RangeOf(q) ==
    {q[i] : i \in 1..Len(q)}

IdsOf(q) ==
    {q[i].id : i \in 1..Len(q)}

\* the table after the first n requests of q ran on one connection
RECURSIVE TableAfter(_, _)
TableAfter(q, n) ==
    IF n = 0 THEN InitialTable
    ELSE Effect(q[n].req, q[n].key, q[n].val, TableAfter(q, n - 1))

\* the ids of the requests of kind req that the last call of c put on a queue
SentBy(c, req) ==
    {x \in RangeOf(th[c].sent) :
        \E w \in Workers : \E i \in 1..Len(enq[w]) :
            enq[w][i].id = x /\ enq[w][i].req = req}

\* the writes put on the queue of w before the request with id x
WritesBefore(w, x) ==
    {enq[w][i].id : i \in {j \in 1..Len(enq[w]) :
                              enq[w][j].req \in Writes /\ enq[w][j].id < x}}

\* the worker has finished with request number i of its queue
Processed(w, i) ==
    /\ i <= Len(applied[w])
    /\ i < Len(applied[w]) \/ wpc[w] \in {"get", "done"}

Done(c, name) ==
    th[c].status = "ok" /\ th[c].name = name

\* ------------------------------------------------------------------ claims

\* C1: the worker takes requests off the queue in exactly the order they were
\* put on it, whichever caller put them; so a read put on the queue after a
\* write returns what that write (and every earlier one) left in the table.
C1_FifoOrder ==
    \A w \in Workers :
        /\ Len(applied[w]) <= Len(enq[w])
        /\ \A i \in 1..Len(applied[w]) : applied[w][i].id = enq[w][i].id
        /\ \A i \in 1..Len(enq[w]) :
               (enq[w][i].req \in Reads /\ enq[w][i].id \in DOMAIN seen)
               => seen[enq[w][i].id]
                    = RowsOf(enq[w][i].req, enq[w][i].key, TableAfter(enq[w], i - 1))

\* a read by one caller returned the not yet committed write of another
C1_Witness ==
    \E w \in Workers : \E i, j \in 1..Len(enq[w]) :
        /\ i < j
        /\ enq[w][i].req = ADD_ITEM /\ enq[w][j].req = GET_ITEM
        /\ enq[w][i].by # enq[w][j].by
        /\ enq[w][i].id \notin durable
        /\ enq[w][j].id \in DOMAIN seen
        /\ seen[enq[w][j].id] = << <<enq[w][i].val>> >>

\* C2: a failure the worker recorded is raised by check_raise_error to
\* exactly one caller, never to two, in every interleaving of the callers.
C2_RaisedOnce ==
    \A f \in DOMAIN raised : raised[f] <= 1

\* C3: without autocommit, when a graceful close() has returned, every write
\* the worker applied before the close request is in the committed table.
C3_CloseCommits ==
    \A c \in Callers :
        (Done(c, "close") /\ ~th[c].flag /\ ~autocommit)
        => \A x \in SentBy(c, CLOSE) :
               \A w \in Workers :
                   x \in IdsOf(applied[w])
                   => WritesBefore(w, x) \cap IdsOf(applied[w]) \subseteq durable

\* C4: a failing statement does not stall the worker: the failure is
\* recorded, the result queue of the statement (if it has one) gets its
\* sentinel, and the worker stays able to take the next step of its loop.
C4_FailureDoesNotStall ==
    \A w \in Workers :
        /\ \A i \in 1..Len(applied[w]) :
               (applied[w][i].req = BAD_STMT /\ Processed(w, i))
               => /\ applied[w][i].id \in RangeOf(recorded)
                  /\ applied[w][i].res # None
                       => Count(sentinels, applied[w][i].res) = 1
        /\ (wpc[w] \notin {"new", "get", "done"} \/ (wpc[w] = "get" /\ reqs[w] # <<>>))
               => ENABLED WorkerNext(w)

\* the worker ran a later write after a failed statement whose caller was
\* waiting on its result queue and received the sentinel
C4_Witness ==
    \E w \in Workers : \E i, j \in 1..Len(applied[w]) :
        /\ i < j
        /\ applied[w][i].req = BAD_STMT /\ applied[w][i].res # None
        /\ applied[w][j].req \in Writes /\ Processed(w, j)
        /\ th[applied[w][i].by].res = applied[w][i].res
        /\ th[applied[w][i].by].rec.t = NO_MORE

\* C5: when commit(blocking=True) has returned on a store it found open, the
\* worker has run the commit request of that call and every write put on the
\* queue before it is in the committed table; commit(blocking=False) puts
\* one request without a result queue and returns.
C5_BlockingCommit ==
    \A c \in Callers :
        (Done(c, "commit") /\ ~th[c].noconn)
        => /\ SentBy(c, COMMIT) # {}
           /\ \A x \in SentBy(c, COMMIT) :
               IF th[c].flag
               THEN /\ Count(sentinels, x) = 1
                    /\ \A w \in Workers :
                           x \in IdsOf(enq[w])
                           => /\ x \in IdsOf(applied[w])
                              /\ WritesBefore(w, x) \subseteq durable
               ELSE /\ th[c].sent = <<x>>
                    /\ x \notin DOMAIN chan

\* a blocking commit returned after a write made without autocommit, and a
\* non-blocking commit returned while its request is still on the queue
C5_Witness ==
    /\ \E c \in Callers :
           /\ Done(c, "commit") /\ th[c].flag /\ ~autocommit
           /\ \E x \in SentBy(c, COMMIT) : WritesBefore(th[c].cw, x) # {}
    /\ \E c \in Callers :
           /\ Done(c, "commit") /\ ~th[c].flag
           /\ \E x \in SentBy(c, COMMIT) : x \in IdsOf(reqs[th[c].cw])

\* C6: with autocommit, when a set or a delete has returned normally its
\* write is in the committed table.
C6_AutocommitDurable ==
    \A c \in Callers :
        (autocommit /\ (Done(c, "setitem") \/ Done(c, "delitem")))
        => /\ SentBy(c, ADD_ITEM) \cup SentBy(c, DEL_ITEM) # {}
           /\ SentBy(c, ADD_ITEM) \cup SentBy(c, DEL_ITEM) \subseteq durable

\* C7: a forced close never raises and none of its steps can block, also
\* when the worker is busy or has exited; a graceful close that has returned
\* after putting its close request has received the worker's acknowledgment.
C7_ForcedCloseNeverBlocks ==
    \A c \in Callers :
        th[c].name = "close"
        => IF th[c].flag
           THEN /\ th[c].status # "raised"
                /\ Running(c) => ENABLED CallerStep(c)
           ELSE th[c].status = "ok"
                => \A x \in SentBy(c, CLOSE) :
                       Count(sentinels, x) = 1 /\ th[c].rec.t = NO_MORE

\* C8: when a graceful close() has returned on a store it found open,
\* every request put on the queue before it has been executed, the
\* connection is closed and the worker thread has ended; the acknowledgment
\* is put only after the connection was closed.
C8_GracefulClose ==
    /\ \A c \in Callers :
           (Done(c, "close") /\ ~th[c].flag /\ ~th[c].noconn)
           => /\ SentBy(c, CLOSE) # {}
              /\ \A x \in SentBy(c, CLOSE) :
                  \A w \in Workers :
                      x \in IdsOf(enq[w])
                      => /\ {y \in IdsOf(enq[w]) : y <= x} \subseteq IdsOf(applied[w])
                         /\ ~connopen[w]
                         /\ wpc[w] = "done"
    /\ \A w \in Workers :
           (cur[w].req = CLOSE /\ Count(sentinels, cur[w].res) > 0)
           => ~connopen[w]

\* a graceful close returned behind a write of the other caller
C8_Witness ==
    \E c \in Callers :
        /\ Done(c, "close") /\ ~th[c].flag
        /\ \E x \in SentBy(c, CLOSE) :
               \E i \in 1..Len(enq[th[c].cw]) :
                   /\ enq[th[c].cw][i].id < x
                   /\ enq[th[c].cw][i].req \in Writes
                   /\ enq[th[c].cw][i].by # c

\* C9: at most one worker holds an open connection for the store at any time.
C9_OneConnection ==
    Cardinality({w \in Workers : connopen[w]}) <= 1

\* C10: once the worker thread has exited no request is put on its queue.
C10_CloseTerminal ==
    [][\A w \in Workers : wpc[w] = "done" => reqs'[w] = reqs[w]]_vars

\* the calls that change the store or its file
Mutators ==
    {"setitem", "delitem", "update", "clear", "terminate"}

\* C11: on a store opened with flag "r", set, delete, update, clear and
\* terminate raise RuntimeError without putting anything on the queue: only
\* reads are ever queued, the table and the file stay as they were, and the
\* get of a key that was in the file returns its value.
C11_ReadOnlyDenied ==
    flag = "r"
    => /\ \A c \in Callers :
              th[c].name \in Mutators
              => /\ th[c].status \in {"running", "raised"}
                 /\ th[c].status = "raised" => th[c].err = "RuntimeError"
                 /\ th[c].sent = <<>>
       /\ \A w \in Workers : \A i \in 1..Len(enq[w]) : enq[w][i].req \in Reads
       /\ committed = StoredTable
       /\ \A w \in Workers : txn[w] = NoTxn
       /\ file
       /\ \A c \in Callers :
              (th[c].name = "getitem" /\ HasKey(StoredTable, th[c].key))
              => /\ th[c].status # "raised"
                 /\ th[c].status = "ok"
                      => th[c].result = <<decode(Lookup(StoredTable, th[c].key))>>

\* on a read-only store a set was refused and then a get returned the row
C11_Witness ==
    /\ flag = "r"
    /\ \E c \in Callers :
           /\ th[c].name = "setitem" /\ th[c].status = "raised"
           /\ th[c].err = "RuntimeError"
    /\ \E c \in Callers :
           /\ Done(c, "getitem") /\ th[c].result = <<1>>

\* a delete ended with KeyError
KeyNotFound(c) ==
    /\ th[c].name = "delitem"
    /\ th[c].status = "raised"
    /\ th[c].err = "KeyError"

\* C12 as claimed: a delete that ends with KeyError has put nothing on the
\* request queue.
C12_KeyNotFoundNothingQueued ==
    \A c \in Callers : KeyNotFound(c) => th[c].sent = <<>>

\* C12 as amended: a delete that ends with KeyError has put exactly one
\* request on the queue, the select of its existence check with a result
\* queue, which the worker ran and which found no row; it has put no delete
\* and no commit.
C12_KeyNotFoundNoDelete ==
    \A c \in Callers :
        KeyNotFound(c)
        => /\ Len(th[c].sent) = 1
           /\ SentBy(c, HAS_ITEM) = {th[c].sent[1]}
           /\ th[c].sent[1] \in DOMAIN chan
           /\ th[c].sent[1] \in DOMAIN seen
           /\ seen[th[c].sent[1]] = <<>>

\* the delete of a key raised KeyError after another delete removed the key
C12_Witness ==
    \E c \in Callers :
        /\ KeyNotFound(c)
        /\ \E w \in Workers : \E i \in 1..Len(applied[w]) :
               /\ applied[w][i].req = DEL_ITEM
               /\ applied[w][i].key = th[c].key
               /\ applied[w][i].id < th[c].sent[1]

\* the call of c ended by raising the failure of a statement it had put
\* on the queue itself
RaisedOwn(c) ==
    /\ th[c].status = "raised"
    /\ th[c].err = "sqlite3.Error"
    /\ th[c].errid \in RangeOf(th[c].sent)

Completed(x) ==
    /\ \E w \in Workers : \E i \in 1..Len(applied[w]) :
           applied[w][i].id = x /\ (i < Len(applied[w]) \/ wpc[w] # "exec")
    /\ x \in DOMAIN chan => Count(sentinels, x) = 1

\* C14 as claimed: when a get, a set or a blocking commit has returned, the
\* worker has executed every request the call put on the queue and the result
\* queue of each has reported completion, with and without autocommit.
C14_SynchronousCalls ==
    \A c \in Callers :
        (\/ Done(c, "getitem")
         \/ Done(c, "setitem")
         \/ Done(c, "commit") /\ th[c].flag)
        => \A x \in RangeOf(th[c].sent) : Completed(x)

\* C14 as amended: a get returns or raises KeyError only after the worker
\* executed its select and the caller took the first row or the sentinel
\* from the result queue; a blocking commit returns only after the worker
\* ran it and the caller took its sentinel; a set puts its statement on the
\* queue without a result queue, returns at once when autocommit is off, and
\* waits for the worker only in the blocking commit it makes under autocommit.
C14_SynchronousReads ==
    \A c \in Callers :
        /\ (th[c].name = "getitem" /\ (th[c].status = "ok" \/ th[c].err = "KeyError"))
           => /\ Len(th[c].sent) = 1
              /\ th[c].sent[1] \in DOMAIN seen
              /\ IF th[c].status = "ok"
                 THEN th[c].rec = Row(seen[th[c].sent[1]][1])
                 ELSE th[c].rec.t = NO_MORE /\ Completed(th[c].sent[1])
        /\ (Done(c, "commit") /\ th[c].flag /\ ~th[c].noconn)
           => /\ Len(th[c].sent) = 1
              /\ Completed(th[c].sent[1])
              /\ th[c].rec.t = NO_MORE
        /\ Done(c, "setitem")
           => /\ th[c].sent[1] \in IdsOf(enq[th[c].cw])
              /\ th[c].sent[1] \notin DOMAIN chan
              /\ ~autocommit => Len(th[c].sent) = 1
              /\ Len(th[c].sent) = 2
                   => Completed(th[c].sent[1]) /\ Completed(th[c].sent[2])

\* without autocommit a set returned while its statement was still on the
\* queue, and a get returned its row before the worker put the sentinel
C14_Witness ==
    /\ \E c \in Callers :
           /\ Done(c, "setitem") /\ ~autocommit
           /\ th[c].sent[1] \in IdsOf(reqs[th[c].cw])
    /\ \E c \in Callers :
           /\ Done(c, "getitem")
           /\ Count(sentinels, th[c].sent[1]) = 0

\* the caller waits on a result queue that no thread will ever put to:
\* the worker it sent the request to has ended with a failure
Hangs(c) ==
    /\ Running(c) /\ Ins(c).i = "get"
    /\ chan[th[c].res] = <<>>
    /\ wpc[th[c].cw] = "failed"

\* C15: when the worker fails to open the connection or to apply the
\* pragmas, the constructor raises that failure: it neither returns a store
\* nor waits forever, however the start of the worker interleaves with the
\* create-table and commit requests of the constructor.
C15_OpenFailsFast ==
    \A c \in Callers :
        (th[c].name = "__init__" /\ th[c].cw # 0 /\ wpc[th[c].cw] = "failed")
        => /\ ~Hangs(c)
           /\ th[c].status # "ok"
           /\ th[c].status = "raised"
                => /\ th[c].err = "sqlite3.Error"
                   /\ th[c].errid \in {ConnectionFailure, ConfigurationFailure}

\* the position on the queue of w of the request with id x
IndexOf(w, x) ==
    CHOOSE i \in 1..Len(enq[w]) : enq[w][i].id = x

\* the positions before j of the requests on the queue of w that write key k
WritesTo(w, k, j) ==
    {i \in 1..(j - 1) :
        \/ enq[w][i].req \in {ADD_ITEM, DEL_ITEM} /\ enq[w][i].key = k
        \/ enq[w][i].req = CLEAR_ALL}

Max(S) ==
    CHOOSE i \in S : \A j \in S : j <= i

OneRowPerKey(t) ==
    \A i, j \in 1..Len(t) : t[i][1] = t[j][1] => i = j

\* C16: a get that returns a value returns the value v of the last set of
\* that key queued before it (what the worker stored is encode(v), what the
\* get returns is its decoding), in particular after a set by the same
\* caller; a get raises KeyError only when no set of the key is the last
\* write before it; and no table ever holds two rows with one key.
C16_SetThenGet ==
    /\ \A c \in Callers :
           (th[c].name = "getitem" /\ (th[c].status = "ok" \/ th[c].err = "KeyError"))
           => LET w == th[c].cw
                  before == WritesTo(w, th[c].key, IndexOf(w, th[c].sent[1]))
              IN IF th[c].status = "ok"
                 THEN /\ before # {}
                      /\ enq[w][Max(before)].req = ADD_ITEM
                      /\ \E v \in Vals :
                             /\ enq[w][Max(before)].val = encode(v)
                             /\ th[c].result = <<v>>
                 ELSE before # {} => enq[w][Max(before)].req # ADD_ITEM
    /\ OneRowPerKey(committed)
    /\ \A w \in Workers : txn[w] # NoTxn => OneRowPerKey(txn[w])

\* a caller set a key twice to different values and then got the second
C16_Witness ==
    \E c \in Callers :
        /\ Done(c, "getitem")
        /\ \E i, j \in 1..Len(enq[th[c].cw]) :
               /\ i < j /\ j < IndexOf(th[c].cw, th[c].sent[1])
               /\ enq[th[c].cw][i].req = ADD_ITEM /\ enq[th[c].cw][i].by = c
               /\ enq[th[c].cw][j].req = ADD_ITEM /\ enq[th[c].cw][j].by = c
               /\ enq[th[c].cw][i].key = th[c].key
               /\ enq[th[c].cw][j].key = th[c].key
               /\ enq[th[c].cw][i].val # enq[th[c].cw][j].val
               /\ th[c].result = <<decode(enq[th[c].cw][j].val)>>

\* the last write of key k among the first j - 1 requests of w stored a row
Present(w, k, j) ==
    /\ WritesTo(w, k, j) # {}
    /\ enq[w][Max(WritesTo(w, k, j))].req = ADD_ITEM

\* C17: with one caller on a store opened with flag "c", a get never raises:
\* it returns the value last set for its key, or None (absent) when the key
\* was never set or was deleted since; a delete of a key that is present
\* queues its DELETE, and a delete of an absent key (in particular a second
\* delete) raises KeyError, queues nothing but its existence check and
\* leaves the table as it was before the call.
C17_DeleteThenGet ==
    LET t == th[Single]
        w == t.cw
    IN /\ t.name = "get" => t.status # "raised"
       /\ Done(Single, "get")
              => LET j == IndexOf(w, t.sent[1])
                 IN IF Present(w, t.key, j)
                    THEN t.result = <<decode(enq[w][Max(WritesTo(w, t.key, j))].val)>>
                    ELSE t.result = <<None>>
       /\ (t.name = "delitem" /\ t.status \in {"ok", "raised"})
              => LET j == IndexOf(w, t.sent[1])
                 IN IF Present(w, t.key, j)
                    THEN t.status = "ok" /\ SentBy(Single, DEL_ITEM) # {}
                    ELSE /\ t.err = "KeyError"
                         /\ Len(t.sent) = 1
                         /\ enq[w][j].req = HAS_ITEM
                         /\ j = Len(enq[w])
                         /\ View(w) = TableAfter(enq[w], j - 1)
                         /\ autocommit => committed = TableAfter(enq[w], j - 1)

\* the caller set a key, deleted it, got it and found it absent, and its
\* second delete of the key has raised KeyError
C17_Witness ==
    /\ KeyNotFound(Single)
    /\ \E a, b, g \in 1..Len(enq[1]) :
           /\ a < b /\ b < g /\ g < IndexOf(1, th[Single].sent[1])
           /\ enq[1][a].req = ADD_ITEM /\ enq[1][a].key = th[Single].key
           /\ enq[1][b].req = DEL_ITEM /\ enq[1][b].key = th[Single].key
           /\ enq[1][g].req = GET_ITEM /\ enq[1][g].key = th[Single].key
           /\ enq[1][g].id \in DOMAIN seen
           /\ seen[enq[1][g].id] = <<>>

\* the value caller c stored under its key
ValueSetBy(c) ==
    LET i == CHOOSE i \in 1..Len(enq[1]) :
                 enq[1][i].req = ADD_ITEM /\ enq[1][i].by = c
    IN decode(enq[1][i].val)

\* C18: callers concurrently set distinct keys on one store, however their
\* puts of the REPLACE and of the commit interleave with each other and with
\* the worker: no set raises; once every set has returned, a length() counts
\* one row per caller and a get of each key returns the value its caller
\* set; and under autocommit every set that has returned is committed.
C18_ConcurrentSets ==
    /\ \A c \in Callers : th[c].status # "raised"
    /\ \A c \in Callers :
           Done(c, "len") => th[c].result = <<Cardinality(Callers)>>
    /\ \A c, d \in Callers :
           (Done(c, "getitem") /\ th[c].key = OwnKey(d))
           => th[c].result = <<ValueSetBy(d)>>
    /\ \A c \in Callers :
           (autocommit /\ HasSet(c))
           => /\ \A i \in 1..Len(enq[1]) :
                     (enq[1][i].req = ADD_ITEM /\ enq[1][i].by = c)
                     => enq[1][i].id \in durable
              /\ HasKey(committed, OwnKey(c))

\* under autocommit the puts of two setting callers were interleaved (the
\* REPLACE of the second went on the queue between the REPLACE and the
\* commit of the first), both sets returned and a length() has returned
C18_Witness ==
    /\ autocommit
    /\ \E c \in Callers : Done(c, "len")
    /\ \E i, j, k \in 1..Len(enq[1]) :
           /\ i < j /\ j < k
           /\ enq[1][i].req = ADD_ITEM
           /\ enq[1][j].req = ADD_ITEM /\ enq[1][j].by # enq[1][i].by
           /\ enq[1][k].req = COMMIT /\ enq[1][k].by = enq[1][i].by

\* this step is the return of a clear()
ClearReturns(c) ==
    /\ th[c].name = "clear"
    /\ th[c].status = "running"
    /\ th'[c].status = "ok"

\* C19 as stated: at the moment clear() returns, the committed table is empty.
C19_ClearLeavesEmpty ==
    [][\A c \in Callers : ClearReturns(c) => committed' = InitialTable]_vars

\* the rows of t all come from a REPLACE queued after position j of w
OnlyLaterRows(w, t, j) ==
    \A r \in 1..Len(t) :
        \E i \in (j + 1)..Len(enq[w]) :
            /\ enq[w][i].req = ADD_ITEM
            /\ t[r] = <<enq[w][i].key, enq[w][i].val>>

\* C19 (amended): clear() queues a blocking commit, the DELETE of all rows
\* and a second blocking commit, whatever the autocommit mode.  Once the
\* DELETE has run, every write queued before the first commit is committed;
\* when clear() has returned, the DELETE and every write queued before the
\* second commit are committed, and the committed table holds no row
\* written before the DELETE: it is empty unless another caller queued a
\* set after the DELETE.
C19_ClearCommits ==
    \A c \in Callers :
        th[c].name = "clear"
        => LET w == th[c].cw
               s == th[c].sent
           IN /\ th[c].status # "raised"
              /\ (Len(s) >= 2 /\ s[2] \in IdsOf(applied[w]))
                     => WritesBefore(w, s[1]) \subseteq durable
              /\ th[c].status = "ok"
                     => /\ Len(s) = 3
                        /\ enq[w][IndexOf(w, s[1])].req = COMMIT
                        /\ enq[w][IndexOf(w, s[2])].req = CLEAR_ALL
                        /\ enq[w][IndexOf(w, s[3])].req = COMMIT
                        /\ s[2] \in durable
                        /\ WritesBefore(w, s[3]) \subseteq durable
                        /\ OnlyLaterRows(w, committed, IndexOf(w, s[2]))
                        /\ OnlyLaterRows(w, View(w), IndexOf(w, s[2]))

\* without autocommit a clear() has returned that found an uncommitted set
\* on the queue before it, and the committed table is empty
C19_Witness ==
    /\ ~autocommit
    /\ committed = InitialTable
    /\ \E c \in Callers :
           /\ Done(c, "clear")
           /\ \E i \in 1..Len(enq[1]) :
                  /\ enq[1][i].req = ADD_ITEM
                  /\ enq[1][i].id < th[c].sent[1]
                  /\ \A j \in 1..Len(enq[1]) :
                         enq[1][j].req = COMMIT => enq[1][j].id >= th[c].sent[1]

\* C20: create_book(book) awaits the repository's create_book exactly once,
\* with that book; when the repository call raised, create_book raises
\* ErrorBookCreation with a message that contains "Failed create book with
\* details"; when it did not, create_book returns normally.
C20_CreateBook ==
    /\ Len(svc.awaited) <= 1
    /\ (svc.pc = "done" /\ svc.fn = "create_book")
          => /\ svc.awaited = <<svc.book>>
             /\ IF svc.e \in Exceptions
                THEN /\ svc.out = "ErrorBookCreation"
                     /\ svc.msg.head = "Failed create book with details"
                ELSE svc.out = "returned"

\* a create_book whose repository call raised has ended
C20_Witness ==
    /\ svc.pc = "done"
    /\ svc.fn = "create_book"
    /\ svc.e = "Exception"
    /\ svc.out = "ErrorBookCreation"
    /\ svc.awaited = <<svc.book>>

\* C21: read_book_by_book_key(key) awaits the repository once, with that
\* key; when the repository returned a book the service returns that very
\* book, and when it returned None the service raises ErrorBookNotFound
\* with the message "Book with UUID <key> not found".
C21_ReadBook ==
    svc.fn = "read_book_by_book_key"
    => /\ svc.awaited = <<svc.key>>
       /\ svc.pc = "done"
             => IF svc.got = <<>>
                THEN /\ svc.out = "ErrorBookNotFound"
                     /\ \E k \in Keys :
                            /\ k = svc.key
                            /\ svc.msg = "Book with UUID " \o ToString(k)
                                             \o " not found"
                ELSE /\ svc.out = "returned"
                     /\ svc.ret = svc.got

\* a read of a key the repository does not have has raised, after a read
\* that found a book
C21_Witness ==
    /\ svc.fn = "read_book_by_book_key"
    /\ svc.pc = "done"
    /\ svc.got = <<>>
    /\ svc.out = "ErrorBookNotFound"
    /\ nops > 1

\* the request with id x on the queue of w
Request(w, x) ==
    enq[w][IndexOf(w, x)]

\* C22: the existence check of a delete and its DELETE are two requests:
\* a delete that returned put a select for the key on the queue, found a
\* row, and only then put its DELETE, as a later request; nothing keeps
\* the requests of another caller from between the two (the witness: two
\* deletes of one stored key both pass the check and both return).
C22_CheckThenDelete ==
    \A c \in Callers :
        Done(c, "delitem")
        => LET w == th[c].cw
               s == th[c].sent
           IN /\ Len(s) >= 2
              /\ Request(w, s[1]).req = HAS_ITEM
              /\ Request(w, s[1]).key = th[c].key
              /\ s[1] \in DOMAIN seen
              /\ seen[s[1]] # <<>>
              /\ Request(w, s[2]).req = DEL_ITEM
              /\ Request(w, s[2]).key = th[c].key
              /\ s[1] < s[2]

\* two callers deleted the one stored key at the same time: both existence
\* checks were queued before either DELETE, and both calls have returned
C22_Witness ==
    \E c, d \in Callers :
        /\ c # d
        /\ Done(c, "delitem") /\ Done(d, "delitem")
        /\ th[c].key = th[d].key
        /\ th[c].sent[1] < th[d].sent[2]
        /\ th[d].sent[1] < th[c].sent[2]
        /\ \A i \in 1..Len(enq[1]) : enq[1][i].req # ADD_ITEM

\* what an iteration yields from the rows of its select
YieldedAll(req, rs) ==
    [i \in 1..Len(rs) |-> Yielded(req, rs[i])]

\* C28: an iteration puts its select on the queue only once its first
\* element has been asked for, and puts one select per call; what it has
\* yielded so far is a prefix, and at its end the whole, of the rows the
\* table held when the worker ran that select (the table left by the
\* requests queued before it), in row order, whatever was queued afterwards.
C28_IterationSnapshot ==
    \A c \in Callers :
        th[c].name = "iterate"
        => LET w == th[c].cw
               s == th[c].sent
           IN /\ th[c].status # "raised"
              /\ Len(s) <= 1
              /\ s = <<>> => th[c].result = <<>>
              /\ s # <<>>
                    => LET j == IndexOf(w, s[1])
                           req == enq[w][j].req
                           all == YieldedAll(req, RowsOf(req, 0, TableAfter(enq[w], j - 1)))
                       IN /\ th[c].flag
                          /\ req \in Iterations
                          /\ Len(th[c].result) <= Len(all)
                          /\ th[c].result = SubSeq(all, 1, Len(th[c].result))
                          /\ th[c].status = "ok" => th[c].result = all

\* a sequence of two elements has yielded its first and waits to be asked
\* for the second, while a write queued after its select has already
\* changed the table
C28_Witness ==
    \E c \in Callers :
        /\ th[c].name = "iterate" /\ Running(c) /\ Ins(c).i = "next"
        /\ Len(th[c].result) = 1
        /\ chan[th[c].res] # <<>>
        /\ Head(chan[th[c].res]).t = "row"
        /\ wpc[1] = "get"
        /\ View(1) # TableAfter(enq[1], IndexOf(1, th[c].sent[1]) - 1)

\* the request that carries result queue r, and the worker it went to
Carrier(r) ==
    CHOOSE p \in UNION {{<<w, i>> : i \in 1..Len(enq[w])} : w \in Workers} :
        enq[p[1]][p[2]].res = r

RowItems(rs) ==
    [i \in 1..Len(rs) |-> Row(rs[i])]

\* everything the queue r is to receive: the rows of its own statement,
\* then one NO_MORE
Stream(r) ==
    (IF r \in DOMAIN seen THEN RowItems(seen[r]) ELSE <<>>) \o <<NoMoreItem>>

IsPrefix(a, b) ==
    Len(a) <= Len(b) /\ a = SubSeq(b, 1, Len(a))

IsSuffix(a, b) ==
    Len(a) <= Len(b) /\ a = SubSeq(b, Len(b) - Len(a) + 1, Len(b))

\* the items of its stream that caller c has taken off its result queue,
\* while it waits in res.get() or for the next next()
Taken(c) ==
    IF th[c].name = "iterate" THEN Len(th[c].result) ELSE 0

\* C23: a result queue is read only by the caller whose request carries it;
\* it receives nothing before the worker takes that request, then the rows
\* of that request's own statement in order, then exactly one NO_MORE, and
\* nothing after it; once the worker is done with the request the NO_MORE
\* is there.
C23_PrivateChannels ==
    /\ \A c \in Callers :
           (th[c].res # None /\ Running(c))
           => enq[Carrier(th[c].res)[1]][Carrier(th[c].res)[2]].by = c
    /\ \A r \in DOMAIN chan :
           LET w == Carrier(r)[1]
               i == Carrier(r)[2]
               c == enq[w][i].by
               rest == SubSeq(Stream(r), Taken(c) + 1, Len(Stream(r)))
           IN /\ Count(sentinels, r) <= 1
              /\ i > Len(applied[w]) => chan[r] = <<>> /\ Count(sentinels, r) = 0
              /\ (wpc[w] = "put" /\ cur[w].res = r)
                     => IsSuffix(chan[r] \o RowItems(rows[w]) \o <<NoMoreItem>>,
                                 Stream(r))
              /\ Processed(w, i)
                     => Count(sentinels, r) = 1 /\ IsSuffix(chan[r], Stream(r))
              /\ (Running(c) /\ th[c].res = r /\ Ins(c).i \in {"get", "next"})
                     => IF Count(sentinels, r) = 1 THEN chan[r] = rest
                        ELSE /\ IsPrefix(chan[r], rest)
                             /\ Len(chan[r]) < Len(rest)

\* the worker has put two rows and the NO_MORE on the queue of an
\* iteration while another caller waits on the queue of its own request
C23_Witness ==
    \E r \in DOMAIN chan :
        /\ Len(chan[r]) = 3
        /\ Count(sentinels, r) = 1
        /\ \E c \in Callers :
               /\ Running(c) /\ th[c].res # None /\ th[c].res # r
               /\ Ins(c).i = "get"

\* the lifecycle state of worker w: 0 INIT, 1 CONNECTED, 2 RUNNING,
\* 3 CLOSING, 4 CLOSED (run() has ended)
Stage(w) ==
    IF wpc[w] \in {"new", "connect"} THEN 0
    ELSE IF wpc[w] = "get" /\ applied[w] = <<>> THEN 1
    ELSE IF wpc[w] \in {"get", "exec", "put"} THEN 2
    ELSE IF wpc[w] \in {"release", "ack", "exit"} THEN 3
    ELSE 4

\* C24 as stated: a worker only moves forward through its lifecycle; it
\* runs statements and commits only on an open connection and before it
\* has taken a close request off the queue; it takes nothing off the queue
\* after a close request; and when its thread has ended, its connection
\* has been released.
C24_WorkerLifecycle ==
    /\ [][\A w \in Workers : Stage(w)' >= Stage(w)]_vars
    /\ [](\A w \in Workers :
             /\ wpc[w] \in {"exec", "put"}
                   => connopen[w] /\ cur[w].req # CLOSE
             /\ \A i \in 1..(Len(applied[w]) - 1) : applied[w][i].req # CLOSE
             /\ Stage(w) = 4 => ~connopen[w])

\* the last call of c raised, from a check made before one of its puts, the
\* recorded failure of a request that is not its own: a set makes its checks
\* before the put of the upsert and before the put of the commit, and one
\* more after the commit's answer, when it has put two requests
SurfacedEarlier(c) ==
    /\ th[c].status = "raised" /\ th[c].err = "sqlite3.Error"
    /\ th[c].errid \notin RangeOf(th[c].sent)
    /\ Len(th[c].sent) < 2

\* C25 as stated: an operation that raises a pending deferred failure at
\* submission time has enqueued nothing: a set that surfaces an earlier
\* failure leaves the queue unchanged, so its write is not applied.
C25_RaisingLeavesQueue ==
    \A c \in Callers :
        th[c].name = "setitem" /\ SurfacedEarlier(c) => th[c].sent = <<>>

\* failure f can still be raised: it is in the failure slot of a worker, or
\* a caller has read it at line 481 and is about to raise it
Pending(f) ==
    \/ \E w \in Workers : exception[w] = f
    \/ \E c \in Callers :
           Running(c) /\ Ins(c).i = "clear" /\ th[c].e = f

\* C26 as stated: no recorded failure is lost: every failure the worker
\* stored in the failure slot has been raised to a caller or can still be
\* raised; it is neither overwritten by a later failure nor erased by the
\* clearing of a caller that read another failure.
C26_NoFailureLost ==
    \A i \in 1..Len(recorded) :
        Count(raised, recorded[i]) > 0 \/ Pending(recorded[i])

\* caller c is inside res.get() of a blocking call (line 528)
Waiting(c) ==
    Running(c) /\ Ins(c).i = "get"

\* C27 as stated: every graceful close() eventually returns and every
\* blocking call whose request is on the queue eventually receives its
\* sentinel, also when two threads close the store at the same time or the
\* request is put behind the close request of another caller.
C27_CloseAndCallsReturn ==
    \A c \in Callers :
        /\ (Running(c) /\ th[c].name = "close") ~> ~Running(c)
        /\ Waiting(c) ~> ~Waiting(c)

====
